---- MODULE Spec2Model ----
(***************************************************************************)
(* A model of DND_Functions.py: the dice roller GetRollValue, the attack   *)
(* simulator MonteCarloAttack and the frequency aggregator                 *)
(* ReturnFrequencies.                                                      *)
(*                                                                         *)
(* Python values are modelled as follows.                                  *)
(*   - an int is [t |-> "int", v |-> k, s |-> <<>>];                       *)
(*   - a str is [t |-> "str", v |-> 0, s |-> <<c1, ..., ck>>], a tuple of  *)
(*     one-character strings;                                              *)
(*   - a numpy vector is a tuple of integers (np.ones(n) * k holds the     *)
(*     floats k.0, which compare and add like the integers they equal);    *)
(*   - a dict is the tuple of its items <<key, value>> in insertion order; *)
(*   - a percentage float(c) / t * 100 is kept as the exact fraction       *)
(*     [num |-> 100 * c, den |-> t] (rounding of the double is not         *)
(*     modelled).                                                          *)
(* The random generator is a nondeterministic choice: GetRollValue is the  *)
(* set of everything a call can produce.                                   *)
(***************************************************************************)
EXTENDS Integers, Sequences, FiniteSets, TLC

\* ------------------------------------------------------------------ bounds

\* direct calls of GetRollValue: "<c>D<f>" with c <= MaxDie, f <= MaxFaces
MaxDie == 2
MaxFaces == 2
\* direct calls of GetRollValue: n <= MaxN
MaxN == 2
\* calls of MonteCarloAttack: n <= MaxTrials
MaxTrials == 1
\* flat modifiers: -MaxFlat..MaxFlat
MaxFlat == 2
\* calls of ReturnFrequencies: at most MaxLen values, each in 0..MaxValue
MaxLen == 3
MaxValue == 2

\* ------------------------------------------------------------------ values

IntVal(k) == [t |-> "int", v |-> k, s |-> <<>>]
StrVal(str) == [t |-> "str", v |-> 0, s |-> str]

DigitChars == <<"0", "1", "2", "3", "4", "5", "6", "7", "8", "9">>

IsDigit(c) == \E d \in 1..10 : DigitChars[d] = c

DigitValue(c) == (CHOOSE d \in 1..10 : DigitChars[d] = c) - 1

RECURSIVE DigitsValue(_)
DigitsValue(str) ==
    IF str = <<>> THEN 0
    ELSE 10 * DigitsValue(SubSeq(str, 1, Len(str) - 1)) + DigitValue(str[Len(str)])

\* int(str) of Python, for strings without blanks and underscores: an
\* optional sign, then one or more decimal digits; ValueError otherwise.
PyIntDigits(str) == IF str # <<>> /\ str[1] \in {"+", "-"} THEN Tail(str) ELSE str

PyIntOk(str) ==
    /\ PyIntDigits(str) # <<>>
    /\ \A k \in 1..Len(PyIntDigits(str)) : IsDigit(PyIntDigits(str)[k])

PyInt(str) ==
    IF str[1] = "-" THEN 0 - DigitsValue(PyIntDigits(str)) ELSE DigitsValue(PyIntDigits(str))

\* str.upper(), on the letters the model's strings are made of
UpperChar(c) == IF c = "d" THEN "D" ELSE IF c = "x" THEN "X" ELSE c

Upper(str) == [k \in 1..Len(str) |-> UpperChar(str[k])]

\* str.split(sep) with a one-character separator
RECURSIVE SplitFrom(_, _, _)
SplitFrom(str, sep, cur) ==
    IF str = <<>> THEN <<cur>>
    ELSE IF Head(str) = sep THEN <<cur>> \o SplitFrom(Tail(str), sep, <<>>)
    ELSE SplitFrom(Tail(str), sep, Append(cur, Head(str)))

Split(str, sep) == SplitFrom(str, sep, <<>>)

FlatRollUnscaled(n, k) == [j \in 1..n |-> 1]

\* np.ones(n) * k
FlatRoll(n, k) == [j \in 1..n |-> k]

\* np.zeros(n)
Zeros(n) == [j \in 1..n |-> 0]

\* ------------------------------------------------------------ GetRollValue

\* What a call produces: an exception (err), or a value: a vector val, or,
\* when scalar holds, the Python number val[1].  draws is the matrix that
\* np.random.randint returned (<<>> when it was not called).
Returned(val, draws) == [err |-> "none", scalar |-> FALSE, val |-> val, draws |-> draws]

ReturnedScalar(k) == [err |-> "none", scalar |-> TRUE, val |-> <<k>>, draws |-> <<>>]

Raised(e) == [err |-> e, scalar |-> FALSE, val |-> <<>>, draws |-> <<>>]

FirstRow(m, n) == IF Len(m) = 0 THEN Zeros(n) ELSE m[1]

RECURSIVE SumRows(_, _)
\* the builtin sum() over the rows of a matrix: 0 + row + ... + row
SumRows(m, n) ==
    IF Len(m) = 0 THEN Zeros(n)
    ELSE [j \in 1..n |-> SumRows(SubSeq(m, 1, Len(m) - 1), n)[j] + m[Len(m)][j]]

RandIntInclusive(low, high, die, n) == [1..die -> [1..n -> low..high]]

\* np.random.randint(low, high, size=(die, n)): every matrix it can return
RandInt(low, high, die, n) == [1..die -> [1..n -> low..(high - 1)]]

\* sum(np.random.randint(1, val + 1, size=(die, n)))
RollDice(die, val, n) ==
    IF die < 0 THEN {Raised("ValueError")}
    ELSE IF val < 1 /\ die * n > 0 THEN {Raised("ValueError")}
    ELSE IF val < 1
    THEN \* an empty size with low >= high: numpy before 1.17 raises, later
         \* versions return the empty array
         {Raised("ValueError"),
          IF die = 0 THEN ReturnedScalar(0) ELSE Returned(<<>>, [k \in 1..die |-> <<>>])}
    ELSE IF die = 0 THEN {ReturnedScalar(0)}
    ELSE {Returned(SumRows(m, n), m) : m \in RandInt(1, val + 1, die, n)}

GetRollValue(roll, n) ==
    IF roll.t = "int" THEN {Returned(FlatRoll(n, roll.v), <<>>)}
    ELSE IF Len(roll.s) = 1
    THEN IF PyIntOk(roll.s) THEN {Returned(FlatRoll(n, PyInt(roll.s)), <<>>)}
         ELSE {Raised("ValueError")}
    ELSE LET parts == Split(Upper(roll.s), "D") IN
         IF \E k \in 1..Len(parts) : ~PyIntOk(parts[k]) THEN {Raised("ValueError")}
         ELSE IF Len(parts) # 2 THEN {Raised("ValueError")}
         ELSE RollDice(PyInt(parts[1]), PyInt(parts[2]), n)

\* -------------------------------------------------------- MonteCarloAttack

\* dict lookups: key in d, and d[key] of a dict that holds the key
HasKey(d, key) == \E k \in 1..Len(d) : d[k][1] = key

ItemOf(d, key) == d[CHOOSE k \in 1..Len(d) : d[k][1] = key][2]

GetItemOrZero(d, key) ==
    IF HasKey(d, key) THEN [err |-> "none", value |-> ItemOf(d, key)]
    ELSE [err |-> "none", value |-> IntVal(0)]

\* actions['hit']: the value, or KeyError
GetItem(d, key) ==
    IF HasKey(d, key) THEN [err |-> "none", value |-> ItemOf(d, key)]
    ELSE [err |-> "KeyError", value |-> IntVal(0)]

\* vec += r, for r a value GetRollValue returned (a scalar is broadcast)
AddTo(vec, r) ==
    [j \in 1..Len(vec) |-> vec[j] + (IF r.scalar THEN r.val[1] ELSE r.val[j])]

\* number * bool
Times(x, b) == IF b THEN x ELSE 0

\* if action == 'hit': continue
SkipsAction(action) == action = "hit"

RollsAllAgain(action) == TRUE

\* if action == 'prof': continue (otherwise the action is rolled again)
RollsAgain(action) == action # "prof"

HitSuccessOrNatural(hit_, bonus, ac_) ==
    [j \in 1..Len(hit_) |-> hit_[j] + bonus >= ac_ \/ hit_[j] = 20]

\* hit + actions['hit'] >= ac
HitSuccess(hit_, bonus, ac_) == [j \in 1..Len(hit_) |-> hit_[j] + bonus >= ac_]

HitCriticalFromNineteen(hit_) == [j \in 1..Len(hit_) |-> hit_[j] >= 19]

\* hit == 20
HitCritical(hit_) == [j \in 1..Len(hit_) |-> hit_[j] = 20]

HitNotNaturalOne(hit_) == [j \in 1..Len(hit_) |-> hit_[j] # 1]

\* hit != 0
HitAbsoluteMiss(hit_) == [j \in 1..Len(hit_) |-> hit_[j] # 0]

\* vector * vector of bools
Masked(vec, mask) == [j \in 1..Len(vec) |-> Times(vec[j], mask[j])]

Minus(a, b) == [j \in 1..Len(a) |-> a[j] - b[j]]

\* vector + vector
Plus(a, b) == [j \in 1..Len(a) |-> a[j] + b[j]]

\* --------------------------------------------------------- ReturnFrequencies

\* Counter(list_of_values).items(): <<value, count>>, in order of first
\* occurrence
RECURSIVE Counter(_)
Counter(list) ==
    IF list = <<>> THEN <<>>
    ELSE LET before == Counter(SubSeq(list, 1, Len(list) - 1))
             x == list[Len(list)]
         IN IF \E k \in 1..Len(before) : before[k][1] = x
            THEN [k \in 1..Len(before) |->
                     IF before[k][1] = x THEN <<x, before[k][2] + 1>> ELSE before[k]]
            ELSE Append(before, <<x, 1>>)

RECURSIVE SumCounts(_)
\* sum(value_counts.values())
SumCounts(items) ==
    IF items = <<>> THEN 0 ELSE items[1][2] + SumCounts(Tail(items))

Unsorted(items) == items

\* sorted(items), for items with distinct keys: by ascending key
RECURSIVE Sorted(_)
Sorted(items) ==
    IF items = <<>> THEN <<>>
    ELSE LET k == CHOOSE a \in 1..Len(items) :
                      \A b \in 1..Len(items) : items[a][1] <= items[b][1]
         IN <<items[k]>> \o
            Sorted(SubSeq(items, 1, k - 1) \o SubSeq(items, k + 1, Len(items)))

\* float(value) / total_counts * 100
Frequency(value, total_counts) == [num |-> 100 * value, den |-> total_counts]

ReturnFrequencies(list) ==
    LET value_counts == Counter(list)
        total_counts == SumCounts(value_counts)
        items == Sorted(value_counts)
    IN [k \in 1..Len(items) |-> <<items[k][1], Frequency(items[k][2], total_counts)>>]

\* ------------------------------------------------------------------ state

VARIABLES
    call,                      \* the function called: "none" before the call
    pc,                        \* "idle", "loop", "done" (returned), "raised"
    raised,                    \* the exception that ended the call, or "none"
    roll, n, ret,              \* GetRollValue: arguments and returned value
    actions, ac,               \* MonteCarloAttack: arguments (with n)
    i,                         \* position of the for loop in actions.items()
    rolled,                    \* what GetRollValue returned to the loop so far
    hit_success_damage, hit_critical_damage,
    hit, hit_success, hit_critical, hit_absolute_miss,
    hit_success_damage_final, hit_critical_damage_final,
    final_damage,              \* the vector returned
    list_of_values, frequency_dict   \* ReturnFrequencies: argument, result

rollVars == <<roll, ret>>

loopVars == <<i, rolled, hit_success_damage, hit_critical_damage>>

tallyVars == <<hit, hit_success, hit_critical, hit_absolute_miss,
               hit_success_damage_final, hit_critical_damage_final, final_damage>>

attackVars == <<actions, ac, loopVars, tallyVars>>

freqVars == <<list_of_values, frequency_dict>>

vars == <<call, pc, raised, n, rollVars, attackVars, freqVars>>

\* ----------------------------------------------------------------- inputs

RECURSIVE Decimal(_)
\* the decimal digits of a natural number
Decimal(k) ==
    IF k < 10 THEN <<DigitChars[k + 1]>>
    ELSE Decimal(k \div 10) \o <<DigitChars[(k % 10) + 1]>>

\* "<c>D<f>" with the letter given
DiceString(c, letter, f) == Decimal(c) \o <<letter>> \o Decimal(f)

\* strings that are no "<c>D<f>", and some with a signed part
OtherStrings ==
    { <<>>, <<"x">>, <<"D">>, <<"-">>, <<"1", "2">>, <<"D", "2">>, <<"2", "D">>,
      <<"x", "D", "2">>, <<"1", "D", "x">>, <<"1", "x", "2">>,
      <<"1", "D", "2", "D", "2">>, <<"-", "1", "D", "2">>, <<"1", "D", "-", "1">>,
      <<"+", "1", "D", "2">> }

\* the roll argument of a direct call of GetRollValue
RollInputs ==
    {IntVal(k) : k \in (0 - MaxFlat)..MaxFlat}
    \cup {StrVal(<<DigitChars[d]>>) : d \in 1..10}
    \cup {StrVal(DiceString(c, letter, f)) :
             c \in 0..MaxDie, letter \in {"D", "d"}, f \in 0..MaxFaces}
    \cup {StrVal(str) : str \in OtherStrings}

\* the dicts passed to MonteCarloAttack: the keys of one of two orders that
\* the dict holds, each with a value
HitBonuses == {0, 5}

ProfRolls == {IntVal(MaxFlat), StrVal(<<"1", "2">>)}

DamageRolls ==
    {IntVal(0 - 1), StrVal(<<"1", "D", "2">>), StrVal(<<"x", "D", "2">>)}

RollsFor(key) ==
    IF key = "hit" THEN {IntVal(b) : b \in HitBonuses}
    ELSE IF key = "prof" THEN ProfRolls
    ELSE DamageRolls

KeyOrders ==
    { <<"hit", "prof", "longbow">>, <<"longbow", "prof", "hit">> }

RECURSIVE DictsOver(_)
\* every dict whose keys are a subsequence of keys
DictsOver(keys) ==
    IF keys = <<>> THEN { <<>> }
    ELSE LET rest == DictsOver(Tail(keys)) IN
         rest \cup { <<<<Head(keys), r>>>> \o d : r \in RollsFor(Head(keys)), d \in rest }

ActionSets == UNION {DictsOver(keys) : keys \in KeyOrders}

Defenses == {1, 21}

\* the scenario {"hit": 5, "longbow": "1D8"} against defense 1, one trial
LongbowScenario ==
    [actions |-> << <<"hit", IntVal(5)>>, <<"longbow", StrVal(<<"1", "D", "8">>)>> >>,
     ac |-> 1, n |-> 1]

AttackInputs ==
    [actions : ActionSets, ac : Defenses, n : 0..MaxTrials] \cup {LongbowScenario}

RECURSIVE SeqsUpTo(_, _)
\* the sequences over S of length at most len
SeqsUpTo(S, len) ==
    IF len = 0 THEN { <<>> }
    ELSE LET shorter == SeqsUpTo(S, len - 1) IN
         shorter \cup {Append(sq, x) : sq \in shorter, x \in S}

FrequencyInputs == SeqsUpTo(0..MaxValue, MaxLen)

\* ------------------------------------------------------------------ actions

None == <<>>

Init ==
    /\ call = "none" /\ pc = "idle" /\ raised = "none"
    /\ roll = IntVal(0) /\ n = 0 /\ ret = Raised("none")
    /\ actions = <<>> /\ ac = 0
    /\ i = 0 /\ rolled = <<>>
    /\ hit_success_damage = None /\ hit_critical_damage = None
    /\ hit = None /\ hit_success = None /\ hit_critical = None
    /\ hit_absolute_miss = None
    /\ hit_success_damage_final = None /\ hit_critical_damage_final = None
    /\ final_damage = None
    /\ list_of_values = <<>> /\ frequency_dict = None

\* a call GetRollValue(roll, n) from outside
CallGetRollValue ==
    /\ pc = "idle"
    /\ \E roll_ \in RollInputs, n_ \in 0..MaxN :
         \E r \in GetRollValue(roll_, n_) :
            /\ call' = "GetRollValue"
            /\ roll' = roll_ /\ n' = n_
            /\ ret' = r
            /\ raised' = r.err
            /\ pc' = IF r.err = "none" THEN "done" ELSE "raised"
    /\ UNCHANGED <<attackVars, freqVars>>

\* MonteCarloAttack(actions, ac, n), up to the for loop
CallMonteCarloAttack ==
    /\ pc = "idle"
    /\ \E in \in AttackInputs :
          /\ actions' = in.actions /\ ac' = in.ac /\ n' = in.n
          /\ hit_success_damage' = Zeros(in.n)
          /\ hit_critical_damage' = Zeros(in.n)
    /\ call' = "MonteCarloAttack" /\ pc' = "loop" /\ i' = 1
    /\ UNCHANGED <<raised, rolled, rollVars, tallyVars, freqVars>>

InLoop == call = "MonteCarloAttack" /\ pc = "loop" /\ i \in 1..Len(actions)

\* the exception of a call of GetRollValue leaves MonteCarloAttack
LoopRaises(e) ==
    /\ pc' = "raised" /\ raised' = e
    /\ UNCHANGED <<i, rolled, hit_success_damage, hit_critical_damage>>

\* one pass of the loop over an item that is skipped
LoopSkip ==
    /\ InLoop
    /\ SkipsAction(actions[i][1])
    /\ i' = i + 1
    /\ UNCHANGED <<call, pc, raised, n, rollVars, actions, ac, rolled,
                   hit_success_damage, hit_critical_damage, tallyVars, freqVars>>

\* one pass of the loop over an item that is rolled once
LoopRollOnce ==
    /\ InLoop
    /\ ~SkipsAction(actions[i][1])
    /\ ~RollsAgain(actions[i][1])
    /\ \E r \in GetRollValue(actions[i][2], n) :
          IF r.err # "none" THEN LoopRaises(r.err)
          ELSE /\ hit_success_damage' = AddTo(hit_success_damage, r)
               /\ rolled' = Append(rolled, [action |-> actions[i][1], first |-> r,
                                            again |-> FALSE, second |-> r])
               /\ i' = i + 1
               /\ UNCHANGED <<pc, raised, hit_critical_damage>>
    /\ UNCHANGED <<call, n, rollVars, actions, ac, tallyVars, freqVars>>

\* one pass of the loop over an item that is rolled and rolled again
LoopRollTwice ==
    /\ InLoop
    /\ ~SkipsAction(actions[i][1])
    /\ RollsAgain(actions[i][1])
    /\ \E r \in GetRollValue(actions[i][2], n) :
          IF r.err # "none" THEN LoopRaises(r.err)
          ELSE \E c \in GetRollValue(actions[i][2], n) :
                 IF c.err # "none"
                 THEN /\ pc' = "raised" /\ raised' = c.err
                      /\ hit_success_damage' = AddTo(hit_success_damage, r)
                      /\ UNCHANGED <<i, rolled, hit_critical_damage>>
                 ELSE /\ hit_success_damage' = AddTo(hit_success_damage, r)
                      /\ hit_critical_damage' = AddTo(hit_critical_damage, c)
                      /\ rolled' = Append(rolled, [action |-> actions[i][1], first |-> r,
                                                   again |-> TRUE, second |-> c])
                      /\ i' = i + 1
                      /\ UNCHANGED <<pc, raised>>
    /\ UNCHANGED <<call, n, rollVars, actions, ac, tallyVars, freqVars>>

\* the rest of MonteCarloAttack, after the loop
Tally ==
    /\ call = "MonteCarloAttack" /\ pc = "loop" /\ i > Len(actions)
    /\ \E h \in GetRollValue(StrVal(<<"1", "D", "2", "0">>), n) :
         LET bonus == GetItem(actions, "hit") IN
         IF h.err # "none" \/ bonus.err # "none"
         THEN /\ pc' = "raised"
              /\ raised' = IF h.err # "none" THEN h.err ELSE bonus.err
              /\ UNCHANGED tallyVars
         ELSE /\ hit' = h.val
              /\ hit_success' = HitSuccess(h.val, bonus.value.v, ac)
              /\ hit_critical' = HitCritical(h.val)
              /\ hit_absolute_miss' = HitAbsoluteMiss(h.val)
              /\ hit_success_damage_final' = Masked(hit_success_damage, hit_success')
              /\ hit_critical_damage_final' = Masked(hit_critical_damage, hit_critical')
              /\ final_damage' =
                    Masked(Plus(hit_success_damage_final', hit_critical_damage_final'),
                           hit_absolute_miss')
              /\ pc' = "done" /\ raised' = "none"
    /\ UNCHANGED <<call, n, rollVars, actions, ac, loopVars, freqVars>>

\* a call ReturnFrequencies(list_of_values)
CallReturnFrequencies ==
    /\ pc = "idle"
    /\ \E list \in FrequencyInputs :
          /\ list_of_values' = list
          /\ frequency_dict' = ReturnFrequencies(list)
    /\ call' = "ReturnFrequencies" /\ pc' = "done"
    /\ UNCHANGED <<raised, n, rollVars, attackVars>>

Next ==
    \/ CallGetRollValue
    \/ CallMonteCarloAttack
    \/ LoopSkip
    \/ LoopRollOnce
    \/ LoopRollTwice
    \/ Tally
    \/ CallReturnFrequencies

Spec == Init /\ [][Next]_vars

\* ------------------------------------------------------------------ claims

Attack == call = "MonteCarloAttack"

AttackDone == Attack /\ pc = "done"

\* the hit bonus of an Action Set that has the key "hit"
HitBonus == ItemOf(actions, "hit").v

NonHit == {k \in 1..Len(actions) : actions[k][1] # "hit"}

\* "<digits>D<digits>", in either letter case; p is the place of the letter
HasDiceShape(str, p) ==
    /\ 1 < p /\ p < Len(str)
    /\ str[p] \in {"D", "d"}
    /\ \A k \in 1..Len(str) : k # p => IsDigit(str[k])

\* a Roll Specification: a flat integer, or "<count>D<faces>" with
\* count >= 1 and faces >= 1
IsDiceSpec(r) ==
    /\ r.t = "str"
    /\ \E p \in 1..Len(r.s) :
          /\ HasDiceShape(r.s, p)
          /\ \E k \in 1..(p - 1) : r.s[k] # "0"
          /\ \E k \in (p + 1)..Len(r.s) : r.s[k] # "0"

IsRollSpec(r) == r.t = "int" \/ IsDiceSpec(r)

\* a malformed dice string: neither a single digit nor "<digits>D<digits>"
IsMalformed(r) ==
    /\ r.t = "str"
    /\ ~(Len(r.s) = 1 /\ IsDigit(r.s[1]))
    /\ ~\E p \in 1..Len(r.s) : HasDiceShape(r.s, p)

ValidActionSet ==
    /\ HasKey(actions, "hit")
    /\ ItemOf(actions, "hit").t = "int"
    /\ \A k \in NonHit : IsRollSpec(actions[k][2])

AnyMalformed == \E k \in NonHit : IsMalformed(actions[k][2])

NoNegativeFlat == \A k \in NonHit : actions[k][2].t = "int" => actions[k][2].v >= 0

\* C1: every trial of MonteCarloAttack returns baseDamage * isHit +
\* criticalExtra * isCritical, with isHit = (hitRoll + hit bonus >= defense)
\* and isCritical = (hitRoll = 20); when 20 + hit bonus < defense the trial
\* yields 0, or the critical extra alone on a hit roll of 20.
C1_TrialDamage ==
    AttackDone =>
        \A j \in 1..n :
            LET isHit == hit[j] + HitBonus >= ac
                isCritical == hit[j] = 20
            IN /\ final_damage[j] =
                     (IF isHit THEN hit_success_damage[j] ELSE 0)
                     + (IF isCritical THEN hit_critical_damage[j] ELSE 0)
               /\ 20 + HitBonus < ac =>
                     final_damage[j] =
                        IF hit[j] = 20 THEN hit_critical_damage[j] ELSE 0

C1_Witness ==
    /\ AttackDone /\ n >= 1
    /\ 20 + HitBonus < ac
    /\ hit[1] = 20
    /\ hit_success_damage[1] > 0
    /\ final_damage[1] = hit_critical_damage[1]
    /\ final_damage[1] > 0

\* C2 as stated: a trial whose hit roll is 20 is a critical and also a hit,
\* so its damage is the base damage plus the critical extra, whatever the
\* defense and the hit bonus.
C2_NaturalTwentyAlwaysHits ==
    AttackDone =>
        \A j \in 1..n :
            hit[j] = 20 =>
                /\ hit_critical[j]
                /\ hit_success[j]
                /\ final_damage[j] = hit_success_damage[j] + hit_critical_damage[j]

\* C2 amended: a trial whose hit roll is 20 is always a critical, and is a
\* hit exactly when 20 + hit bonus >= defense: its damage is the critical
\* extra, plus the base damage only when 20 + hit bonus >= defense.
C2_NaturalTwenty ==
    AttackDone =>
        \A j \in 1..n :
            hit[j] = 20 =>
                /\ hit_critical[j]
                /\ hit_success[j] <=> (20 + HitBonus >= ac)
                /\ final_damage[j] =
                      (IF 20 + HitBonus >= ac THEN hit_success_damage[j] ELSE 0)
                      + hit_critical_damage[j]

C2_Witness ==
    /\ AttackDone /\ n >= 1
    /\ hit[1] = 20
    /\ 20 + HitBonus < ac
    /\ hit_critical[1] /\ ~hit_success[1]
    /\ hit_success_damage[1] # 0
    /\ final_damage[1] # hit_success_damage[1] + hit_critical_damage[1]

\* C3 as stated: for an Action Set of valid Roll Specifications (any flat
\* integer, or dice), the call returns one entry per trial and every entry
\* is non-negative.
C3_NonNegativeDamage ==
    (Attack /\ ValidActionSet) =>
        /\ pc # "raised"
        /\ pc = "done" =>
              /\ Len(final_damage) = n
              /\ \A j \in 1..n : final_damage[j] >= 0

\* C3 amended: for an Action Set of valid Roll Specifications the call
\* returns one entry per trial; every entry is non-negative when no action
\* other than "hit" is a negative flat integer.
C3_DamageVector ==
    (Attack /\ ValidActionSet) =>
        /\ pc # "raised"
        /\ pc = "done" =>
              /\ Len(final_damage) = n
              /\ NoNegativeFlat => \A j \in 1..n : final_damage[j] >= 0

C3_Witness ==
    /\ AttackDone /\ ValidActionSet /\ NoNegativeFlat
    /\ n >= 1 /\ Len(final_damage) = n
    /\ \E k \in NonHit : actions[k][2].t = "int"
    /\ \E k \in NonHit : IsDiceSpec(actions[k][2])
    /\ final_damage[1] > 0

InLongbowScenario ==
    AttackDone /\ actions = LongbowScenario.actions /\ ac = LongbowScenario.ac

\* C4 as stated: for {"hit": 5, "longbow": "1D8"} against defense 1, the
\* damage of every trial lies in [1, 8], whatever the dice show.
C4_LongbowOneToEight ==
    InLongbowScenario => \A j \in 1..n : final_damage[j] \in 1..8

\* C4 amended: for {"hit": 5, "longbow": "1D8"} against defense 1, the
\* damage of every trial is never 0 and lies in [1, 16]: in [1, 8] when the
\* hit roll is not 20, and in [2, 16] when it is 20.
C4_LongbowDamage ==
    InLongbowScenario =>
        \A j \in 1..n :
            /\ final_damage[j] \in 1..16
            /\ hit[j] # 20 => final_damage[j] \in 1..8
            /\ hit[j] = 20 => final_damage[j] \in 2..16

C4_Witness ==
    /\ InLongbowScenario /\ n >= 1
    /\ hit[1] = 20
    /\ final_damage[1] = 16

RollCall == call = "GetRollValue"

RECURSIVE ColumnSum(_, _)
\* the sum of column j of a matrix
ColumnSum(m, j) == IF m = <<>> THEN 0 ELSE m[1][j] + ColumnSum(Tail(m), j)

\* C5: for "<c>D<f>" in either letter case with c >= 1 and f >= 1,
\* GetRollValue returns n values, each the sum of c draws from [1, f], so
\* in [c, c * f], and every value of that range is a possible outcome of
\* a trial.
C5_DiceRoll ==
    RollCall =>
        \A c \in 1..MaxDie, f \in 1..MaxFaces, letter \in {"D", "d"} :
            roll = StrVal(DiceString(c, letter, f)) =>
                /\ pc = "done" /\ ~ret.scalar
                /\ Len(ret.val) = n
                /\ Len(ret.draws) = c
                /\ \A k \in 1..c :
                      /\ Len(ret.draws[k]) = n
                      /\ \A j \in 1..n : ret.draws[k][j] \in 1..f
                /\ \A j \in 1..n :
                      /\ ret.val[j] = ColumnSum(ret.draws, j)
                      /\ ret.val[j] \in c..(c * f)
                /\ {r.val : r \in GetRollValue(roll, 1)} = {<<v>> : v \in c..(c * f)}

C5_Witness ==
    /\ RollCall /\ pc = "done"
    /\ roll = StrVal(<<"2", "d", "2">>)
    /\ n = 2
    /\ ret.val = <<2, 4>>

\* C6: for a flat integer v of any sign, GetRollValue returns n copies of
\* v and nothing else; a one-digit string is the same as its integer.
C6_FlatRoll ==
    RollCall =>
        /\ roll.t = "int" =>
              /\ pc = "done" /\ ~ret.scalar
              /\ ret.val = [j \in 1..n |-> roll.v]
              /\ Cardinality(GetRollValue(roll, n)) = 1
        /\ \A d \in 0..9 :
              roll = StrVal(<<DigitChars[d + 1]>>) =>
                 /\ pc = "done" /\ ~ret.scalar
                 /\ ret.val = [j \in 1..n |-> d]
                 /\ GetRollValue(roll, n) = GetRollValue(IntVal(d), n)

C6_Witness ==
    /\ RollCall /\ pc = "done"
    /\ roll = IntVal(0 - 2)
    /\ n = 2
    /\ ret.val = <<0 - 2, 0 - 2>>

\* the call is all-or-nothing, and the loop never passes a malformed spec
AllOrNothing ==
    /\ pc = "raised" => final_damage = None
    /\ pc = "done" => Len(final_damage) = n
    /\ pc = "loop" => final_damage = None
    /\ \A k \in NonHit : IsMalformed(actions[k][2]) => i <= k

FrequencyCall == call = "ReturnFrequencies"

Occurrences(list, x) == Cardinality({k \in 1..Len(list) : list[k] = x})

RECURSIVE SumOfFractions(_)
\* the exact sum of the percentages of a table, as a fraction
SumOfFractions(table) ==
    IF table = <<>> THEN [num |-> 0, den |-> 1]
    ELSE LET rest == SumOfFractions(Tail(table))
             fr == table[1][2]
         IN [num |-> fr.num * rest.den + rest.num * fr.den, den |-> fr.den * rest.den]

\* list_of_values with its positions permuted by p
Permuted(list, p) == [k \in 1..Len(list) |-> list[p[k]]]

\* C8: ReturnFrequencies returns one entry per distinct input value, in
\* ascending order of value, each 100 * occurrences / length; the entries
\* sum to 100 for a non-empty input, the table is the same for every
\* permutation of the input, and an empty input gives an empty table.
C8_Frequencies ==
    FrequencyCall =>
        /\ pc = "done"
        /\ Len(frequency_dict) =
              Cardinality({list_of_values[k] : k \in 1..Len(list_of_values)})
        /\ \A k \in 1..Len(frequency_dict) :
              LET fr == frequency_dict[k][2]
                  occ == Occurrences(list_of_values, frequency_dict[k][1])
              IN /\ occ >= 1
                 /\ fr.den > 0
                 /\ fr.num * Len(list_of_values) = 100 * occ * fr.den
        /\ \A k \in 1..(Len(frequency_dict) - 1) :
              frequency_dict[k][1] < frequency_dict[k + 1][1]
        /\ list_of_values # <<>> =>
              SumOfFractions(frequency_dict).num = 100 * SumOfFractions(frequency_dict).den
        /\ \A p \in Permutations(1..Len(list_of_values)) :
              ReturnFrequencies(Permuted(list_of_values, p)) = frequency_dict
        /\ list_of_values = <<>> => frequency_dict = <<>>

C8_Witness ==
    /\ FrequencyCall /\ pc = "done"
    /\ list_of_values = <<2, 0, 2>>
    /\ Len(frequency_dict) = 2
    /\ frequency_dict[1][1] = 0
    /\ frequency_dict[2][1] = 2
    /\ 3 * frequency_dict[2][2].num = 200 * frequency_dict[2][2].den

RECURSIVE NonHitKeys(_)
\* the keys other than "hit" of the first items of a dict, in order
NonHitKeys(items) ==
    IF items = <<>> THEN <<>>
    ELSE IF items[1][1] = "hit" THEN NonHitKeys(Tail(items))
    ELSE <<items[1][1]>> \o NonHitKeys(Tail(items))

RECURSIVE SumFirst(_, _)
\* the sum over the rolled actions of trial j of their first roll
SumFirst(log, j) ==
    IF log = <<>> THEN 0 ELSE log[1].first.val[j] + SumFirst(Tail(log), j)

RECURSIVE SumSecond(_, _)
\* the sum over the rolled actions other than "prof" of trial j of their
\* second roll
SumSecond(log, j) ==
    IF log = <<>> THEN 0
    ELSE (IF log[1].action # "prof" THEN log[1].second.val[j] ELSE 0)
         + SumSecond(Tail(log), j)

\* C9: baseDamage is the sum of one roll of every action except "hit"
\* ("prof" included), criticalExtra the sum of a second roll of every action
\* except "hit" and "prof"; on a critical hit the proficiency is counted
\* once, and the second roll of an action is drawn anew.
C9_BaseAndCritical ==
    (Attack /\ pc \in {"loop", "done"}) =>
        /\ [m \in 1..Len(rolled) |-> rolled[m].action]
              = NonHitKeys(SubSeq(actions, 1, i - 1))
        /\ \A m \in 1..Len(rolled) :
              LET spec == ItemOf(actions, rolled[m].action) IN
              /\ rolled[m].first \in GetRollValue(spec, n)
              /\ rolled[m].again <=> rolled[m].action # "prof"
              /\ rolled[m].again => rolled[m].second \in GetRollValue(spec, n)
        /\ \A j \in 1..n :
              /\ hit_success_damage[j] = SumFirst(rolled, j)
              /\ hit_critical_damage[j] = SumSecond(rolled, j)
        /\ pc = "done" =>
              /\ i = Len(actions) + 1
              /\ \A j \in 1..n :
                    (hit_success[j] /\ hit_critical[j]) =>
                        final_damage[j] = SumFirst(rolled, j) + SumSecond(rolled, j)

C9_Witness ==
    /\ AttackDone /\ n >= 1
    /\ hit_success[1] /\ hit_critical[1]
    /\ \E m \in 1..Len(rolled) : rolled[m].action = "prof" /\ rolled[m].first.val[1] > 0
    /\ \E m \in 1..Len(rolled) :
          /\ rolled[m].action = "longbow"
          /\ rolled[m].first.val[1] = 1
          /\ rolled[m].second.val[1] = 2
    /\ final_damage[1] = SumFirst(rolled, 1) + 2

\* C10: hit != 0 holds on every trial, the hit roll being in [1, 20], so
\* the last multiplication changes nothing, and a hit roll of 1 with
\* 1 + hit bonus >= defense deals the full base damage.
C10_NoAbsoluteMiss ==
    AttackDone =>
        \A j \in 1..n :
            /\ hit[j] \in 1..20
            /\ hit_absolute_miss[j]
            /\ final_damage[j] =
                  hit_success_damage_final[j] + hit_critical_damage_final[j]
            /\ (hit[j] = 1 /\ 1 + HitBonus >= ac) =>
                  final_damage[j] = hit_success_damage[j]

C10_Witness ==
    /\ AttackDone /\ n >= 1
    /\ hit[1] = 1
    /\ 1 + HitBonus >= ac
    /\ hit_success_damage[1] > 0
    /\ final_damage[1] = hit_success_damage[1]

====
